---- MODULE Spec2Model ----
(***************************************************************************)
(* Model of the welfare-assistant backend (src/main.py): the per-session   *)
(* field-collection state machine behind POST /chat, its validators and    *)
(* the eligibility evaluator with its fallback rule.                       *)
(*                                                                         *)
(* Text is a sequence of pieces.  A user message is spelled character by   *)
(* character (each piece a one-character string) so that lower(), strip(), *)
(* split(), title(), int(), float() and the regular expressions are        *)
(* computed on it; a reply is made of the literal pieces of the source.    *)
(* A Python value is a record whose single field names its type, so that   *)
(* None, numbers, strings and lists can be told apart and tested for       *)
(* truthiness the way the code does.                                       *)
(***************************************************************************)
EXTENDS Integers, Sequences, FiniteSets, TLC

VARIABLES sessions, reply, calls

vars == <<sessions, reply, calls>>

(***************************************************************************)
(* Python values                                                           *)
(***************************************************************************)
None == [none |-> TRUE]
PyInt(n) == [int |-> n]
PyFloat(x) == [float |-> x]
PyStr(s) == [str |-> s]
PyList(l) == [list |-> l]
PyBool(b) == [bool |-> b]

IsNone(v) == "none" \in DOMAIN v
IsInt(v) == "int" \in DOMAIN v
IsFloat(v) == "float" \in DOMAIN v
IsStr(v) == "str" \in DOMAIN v
IsList(v) == "list" \in DOMAIN v
IsBool(v) == "bool" \in DOMAIN v

\* bool(v): the truth value Python's `if v` / `not v` uses
Truthy(v) ==
    IF IsNone(v) THEN FALSE
    ELSE IF IsInt(v) THEN v.int # 0
    ELSE IF IsFloat(v) THEN v.float # 0
    ELSE IF IsStr(v) THEN Len(v.str) > 0
    ELSE IF IsList(v) THEN Len(v.list) > 0
    ELSE v.bool

(***************************************************************************)
(* Characters and the str methods the handlers use                         *)
(***************************************************************************)
UpperChars == <<"A","B","C","D","E","F","G","H","I","J","K","L","M",
                "N","O","P","Q","R","S","T","U","V","W","X","Y","Z">>
LowerChars == <<"a","b","c","d","e","f","g","h","i","j","k","l","m",
                "n","o","p","q","r","s","t","u","v","w","x","y","z">>
Digits == <<"0","1","2","3","4","5","6","7","8","9">>
Whitespace == {" ", "\t", "\n"}
\* the characters U+20B9 (rupee sign) and U+2022 (bullet), named in ASCII
Rupee == "<U+20B9>"

Range(f) == {f[i] : i \in DOMAIN f}
UpperSet == Range(UpperChars)
LowerSet == Range(LowerChars)
AlphaSet == UpperSet \cup LowerSet
DigitSet == Range(Digits)
LowerOf == [c \in UpperSet |-> LowerChars[CHOOSE i \in DOMAIN UpperChars : UpperChars[i] = c]]
UpperOf == [c \in LowerSet |-> UpperChars[CHOOSE i \in DOMAIN LowerChars : LowerChars[i] = c]]
ValueOf == [c \in DigitSet |-> (CHOOSE i \in DOMAIN Digits : Digits[i] = c) - 1]

IsUpper(c) == c \in UpperSet
IsLower(c) == c \in LowerSet
IsAlpha(c) == c \in AlphaSet
IsDigit(c) == c \in DigitSet
DigitValue(c) == ValueOf[c]

ToLower(c) == IF IsUpper(c) THEN LowerOf[c] ELSE c
ToUpper(c) == IF IsLower(c) THEN UpperOf[c] ELSE c

\* str.lower()
Lower(s) == [i \in DOMAIN s |-> ToLower(s[i])]

\* str.strip(): leading and trailing whitespace removed
RECURSIVE LStrip(_)
LStrip(s) == IF s # <<>> /\ Head(s) \in Whitespace THEN LStrip(Tail(s)) ELSE s
RECURSIVE RStrip(_)
RStrip(s) ==
    IF s # <<>> /\ s[Len(s)] \in Whitespace THEN RStrip(SubSeq(s, 1, Len(s) - 1)) ELSE s
Strip(s) == RStrip(LStrip(s))

\* str.split(): the maximal runs of non-whitespace characters
RECURSIVE SplitFrom(_, _, _)
SplitFrom(s, word, acc) ==
    IF s = <<>> THEN (IF word = <<>> THEN acc ELSE Append(acc, word))
    ELSE IF Head(s) \in Whitespace
         THEN SplitFrom(Tail(s), <<>>, IF word = <<>> THEN acc ELSE Append(acc, word))
         ELSE SplitFrom(Tail(s), Append(word, Head(s)), acc)
Split(s) == SplitFrom(s, <<>>, <<>>)

\* str.title(): a letter after a non-letter is upper-cased, any other lower-cased
Title(s) ==
    [i \in DOMAIN s |->
        IF IsAlpha(s[i])
        THEN (IF i > 1 /\ IsAlpha(s[i - 1]) THEN ToLower(s[i]) ELSE ToUpper(s[i]))
        ELSE s[i]]

\* str.replace(c, ''): every occurrence of the character c removed
Remove(s, c) == SelectSeq(s, LAMBDA x : x # c)

\* prefix in s at the start: str.startswith
StartsWith(s, prefix) ==
    Len(s) >= Len(prefix) /\ SubSeq(s, 1, Len(prefix)) = prefix

\* `needle in s` for strings: needle occurs as a contiguous substring
Contains(s, needle) ==
    \E i \in 0..(Len(s) - Len(needle)) : SubSeq(s, i + 1, i + Len(needle)) = needle

\* every character of s is in the class
AllIn(s, class) == \A i \in DOMAIN s : s[i] \in class

(***************************************************************************)
(* int() and float() on the text the validators receive.  The numerals     *)
(* modelled are an optional sign followed by decimal digits; any other     *)
(* text raises ValueError (ok = FALSE).  Numerals with a decimal point, an *)
(* exponent, underscores, or the words inf/nan are not among the inputs.   *)
(***************************************************************************)
RECURSIVE DigitsValue(_)
DigitsValue(s) ==
    IF s = <<>> THEN 0
    ELSE 10 * DigitsValue(SubSeq(s, 1, Len(s) - 1)) + DigitValue(s[Len(s)])

ParseNumeral(s) ==
    LET signed == s # <<>> /\ Head(s) \in {"+", "-"}
        body == IF signed THEN Tail(s) ELSE s
    IN  IF body # <<>> /\ AllIn(body, DigitSet)
        THEN [ok |-> TRUE,
              val |-> IF signed /\ Head(s) = "-" THEN 0 - DigitsValue(body)
                      ELSE DigitsValue(body)]
        ELSE [ok |-> FALSE]

ParseInt(s) == ParseNumeral(s)
ParseFloat(s) == ParseNumeral(s)

(***************************************************************************)
(* Validators                                                              *)
(***************************************************************************)
MinAge == 0
MaxAge == 120

\* validate_age with the upper limit included
validate_age_inclusive(age_str) ==
    LET age == ParseInt(age_str)
    IN  IF age.ok /\ MinAge < age.val /\ age.val <= MaxAge THEN PyInt(age.val) ELSE None

validate_age(age_str) ==
    LET age == ParseInt(age_str)
    IN  IF age.ok /\ MinAge < age.val /\ age.val < MaxAge THEN PyInt(age.val) ELSE None

validate_income(income_str) ==
    LET income == ParseFloat(Remove(Remove(Remove(income_str, ","), Rupee), "$"))
    IN  IF income.ok /\ income.val >= 0 THEN PyFloat(income.val) ELSE None

PhoneDigits == 10

\* re.match(r'^\d{10}$', s): ten digits, then the end of the string or a final newline
MatchTenDigits(s) ==
    /\ Len(s) \in {PhoneDigits, PhoneDigits + 1}
    /\ AllIn(SubSeq(s, 1, PhoneDigits), DigitSet)
    /\ Len(s) = PhoneDigits + 1 => s[Len(s)] = "\n"

validate_phone(phone_str) ==
    LET bare == Remove(Remove(Remove(Remove(Strip(phone_str), " "), "-"), "("), ")")
        local == IF StartsWith(bare, <<"+", "9", "1">>) THEN SubSeq(bare, 4, Len(bare))
                 ELSE IF StartsWith(bare, <<"9", "1">>) /\ Len(bare) > PhoneDigits
                      THEN SubSeq(bare, 3, Len(bare))
                      ELSE bare
    IN  IF MatchTenDigits(local) THEN PyStr(local) ELSE None

LocalChars == AlphaSet \cup DigitSet \cup {".", "_", "%", "+", "-"}
DomainChars == AlphaSet \cup DigitSet \cup {".", "-"}
MinTld == 2

\* re.match(r'^[a-zA-Z0-9._%+-]+@[a-zA-Z0-9.-]+\.[a-zA-Z]{2,}$', s)
MatchEmail(s) ==
    LET end == IF s # <<>> /\ s[Len(s)] = "\n" THEN {Len(s), Len(s) - 1} ELSE {Len(s)}
    IN  \E e \in end : \E a \in 1..e : \E d \in 1..e :
            /\ s[a] = "@" /\ s[d] = "."
            /\ 1 < a /\ a + 1 < d /\ d + MinTld <= e
            /\ AllIn(SubSeq(s, 1, a - 1), LocalChars)
            /\ AllIn(SubSeq(s, a + 1, d - 1), DomainChars)
            /\ AllIn(SubSeq(s, d + 1, e), AlphaSet)

validate_email(email_str) ==
    LET lowered == Lower(Strip(email_str))
    IN  IF MatchEmail(lowered) THEN PyStr(lowered) ELSE None

(***************************************************************************)
(* Outcomes of a call: a returned value or a raised exception, and the     *)
(* classes an except clause catches                                        *)
(***************************************************************************)
Return(v) == [value |-> v]
Raise(exc) == [exc |-> exc]
IsRaise(outcome) == "exc" \in DOMAIN outcome

ExceptionBase ==
    [Exception |-> "BaseException",
     ValueError |-> "Exception",
     JSONDecodeError |-> "ValueError",
     AttributeError |-> "Exception",
     TypeError |-> "Exception",
     APIConnectionError |-> "Exception",
     APITimeoutError |-> "APIConnectionError",
     OSError |-> "Exception",
     ConnectionError |-> "OSError",
     SMTPException |-> "OSError"]

RECURSIVE Catches(_, _)
Catches(class, exc) ==
    \/ exc = class
    \/ exc \in DOMAIN ExceptionBase /\ Catches(class, ExceptionBase[exc])

(***************************************************************************)
(* Session state (class UserSession) and the session store                 *)
(***************************************************************************)
UserSession(session_id) ==
    [session_id |-> session_id,
     name |-> None, age |-> None, income |-> None,
     state |-> None, phone |-> None, email |-> None,
     eligible_schemes |-> None,
     current_field |-> "name",
     conversation_history |-> <<>>]

\* get_session making a new session for every message
get_session_always_new(store, session_id) ==
    (session_id :> UserSession(session_id)) @@ store

\* get_session: the stored session, created on first use
get_session(store, session_id) ==
    IF session_id \notin DOMAIN store
    THEN (session_id :> UserSession(session_id)) @@ store
    ELSE store

(***************************************************************************)
(* The eligibility service's answer, as evaluate_eligibility sees it.      *)
(* Either the call raises (network error, timeout, bad key), or it returns *)
(* a message whose content is None or a text.  The content is a sequence   *)
(* of tokens: an opening brace, a closing brace, a stretch of prose, or a  *)
(* JSON member ("key": value).                                             *)
(***************************************************************************)
ServiceRaises(exc) == [raises |-> exc]
ServiceReturns(content) == [content |-> content]

LBrace == [tok |-> "{"]
RBrace == [tok |-> "}"]
Prose == [tok |-> "prose"]
Member(key, value) == [key |-> key, value |-> value]
IsMember(t) == "key" \in DOMAIN t

\* str.find / str.rfind of one token: 0-based index, -1 when absent
Find(content, t) ==
    IF \E i \in DOMAIN content : content[i] = t
    THEN (CHOOSE i \in DOMAIN content :
            content[i] = t /\ \A j \in 1..(i - 1) : content[j] # t) - 1
    ELSE -1
RFind(content, t) ==
    IF \E i \in DOMAIN content : content[i] = t
    THEN (CHOOSE i \in DOMAIN content :
            content[i] = t /\ \A j \in (i + 1)..Len(content) : content[j] # t) - 1
    ELSE -1

\* json.loads of text that starts at a brace and ends at a brace: an object
\* if what lies between is a list of members, JSONDecodeError otherwise
JsonLoads(json_str) ==
    IF /\ Len(json_str) >= 2
       /\ json_str[1] = LBrace
       /\ json_str[Len(json_str)] = RBrace
       /\ \A i \in 2..(Len(json_str) - 1) : IsMember(json_str[i])
    THEN [ok |-> TRUE, dict |-> SubSeq(json_str, 2, Len(json_str) - 1)]
    ELSE [ok |-> FALSE]

\* dict.get(key, default): the last member with that key wins
DictGet(dict, key, default) ==
    IF \E i \in DOMAIN dict : dict[i].key = key
    THEN dict[CHOOSE i \in DOMAIN dict :
                dict[i].key = key /\ \A j \in (i + 1)..Len(dict) : dict[j].key # key].value
    ELSE default

SeniorAge == 60
IncomeCeiling == 500000

LowIncomeSchemes == <<PyStr(<<"Ayushman Bharat">>), PyStr(<<"PM Awas Yojana">>)>>
SeniorSchemes == <<PyStr(<<"Atal Pension Yojana">>), PyStr(<<"PM Kisan">>)>>
FallbackReasoning ==
    PyStr(<<"Eligibility determined using fallback logic due to API issues">>)
UnableReasoning == PyStr(<<"Unable to determine eligibility">>)

\* FallbackResult with the age test of the low-income rule left out
FallbackResult_income_only(session) ==
    LET eligible_schemes ==
            IF Truthy(session.income) /\ session.income.float < IncomeCeiling
            THEN LowIncomeSchemes
            ELSE IF Truthy(session.age) /\ session.age.int >= SeniorAge
                 THEN SeniorSchemes
                 ELSE <<>>
    IN  <<Member("eligible_schemes", PyList(eligible_schemes)),
          Member("reasoning", FallbackReasoning)>>

\* the except branch of evaluate_eligibility
FallbackResult(session) ==
    LET eligible_schemes ==
            IF /\ Truthy(session.age) /\ session.age.int < SeniorAge
               /\ Truthy(session.income) /\ session.income.float < IncomeCeiling
            THEN LowIncomeSchemes
            ELSE IF Truthy(session.age) /\ session.age.int >= SeniorAge
                 THEN SeniorSchemes
                 ELSE <<>>
    IN  <<Member("eligible_schemes", PyList(eligible_schemes)),
          Member("reasoning", FallbackReasoning)>>

\* the try branch of evaluate_eligibility
eligibility_try(session, service) ==
    IF "raises" \in DOMAIN service
    THEN Raise(service.raises)
    ELSE IF ~IsStr(service.content)
    THEN Raise("AttributeError")    \* content.find on None
    ELSE LET content == service.content.str
             start_idx == Find(content, LBrace)
             end_idx == RFind(content, RBrace) + 1
         IN  IF start_idx # -1 /\ end_idx > start_idx
             THEN LET result == JsonLoads(SubSeq(content, start_idx + 1, end_idx))
                  IN  IF result.ok THEN Return(result.dict) ELSE Raise("JSONDecodeError")
             ELSE Return(<<Member("eligible_schemes", PyList(<<>>)),
                           Member("reasoning", UnableReasoning)>>)

\* evaluate_eligibility catching only ValueError (the JSON decoding error)
evaluate_eligibility_except_value_error(session, service) ==
    LET tried == eligibility_try(session, service)
    IN  IF IsRaise(tried) /\ Catches("ValueError", tried.exc)
        THEN Return(FallbackResult(session))
        ELSE tried

\* evaluate_eligibility: try ... except Exception: fallback
evaluate_eligibility(session, service) ==
    LET tried == eligibility_try(session, service)
    IN  IF IsRaise(tried) /\ Catches("Exception", tried.exc)
        THEN Return(FallbackResult(session))
        ELSE tried

(***************************************************************************)
(* Replies of process_message and chat                                     *)
(***************************************************************************)
NamePrompt ==
    <<"Hello! I'm here to help you find government welfare schemes you may be eligible for. What is your name?">>
AgePrompt == <<"What is your age?">>
AgeError == <<"Please provide a valid age (numbers only, between 1-120).">>
IncomePrompt == <<"What is your annual income (in rupees)?">>
IncomeError == <<"Please provide a valid annual income (numbers only, e.g., 120000).">>
StatePrompt == <<"Which state do you live in?">>
StateError == <<"Please provide a valid state name.">>
PhonePrompt == <<"What is your phone number?">>
PhoneError == <<"Please provide a valid phone number (10 digits, e.g., 9876543210).">>
EmailPrompt == <<"What is your email address?">>
EmailError == <<"Please provide a valid email address (e.g., user@example.com).">>
MoreAboutReply ==
    <<"I can provide more details about specific schemes. Please mention which scheme you'd like to know more about.">>
AlreadyAssessedReply ==
    <<"I've already assessed your eligibility. Check your email for detailed results, or start over with different information?">>
ErrorReply == <<"Sorry, I encountered an error. Please try again.">>
ServerError == <<"500 Internal Server Error">>

ResultHead == <<"Based on your details, you may be eligible for:\n">>
ResultTail == <<"\n\nYou will receive a detailed email with your eligibility results.">>
NoSchemes == <<"No specific schemes identified">>
Bullet == "<U+2022> "

Greetings == {<<"h","i">>, <<"h","e","l","l","o">>, <<"h","e","y">>, <<"s","t","a","r","t">>}
TellMeMore == <<"t","e","l","l"," ","m","e"," ","m","o","r","e">>
MoreAbout == <<"m","o","r","e"," ","a","b","o","u","t">>
MinStateLen == 2

\* the values `for scheme in v` yields; a number or a bool is not iterable
IsIterable(v) == IsList(v) \/ IsStr(v)
Iterate(v) == IF IsList(v) THEN v.list ELSE [i \in DOMAIN v.str |-> PyStr(<<v.str[i]>>)]

\* the text an f-string puts for a value (only strings are spelled out)
Str(v) == IF IsStr(v) THEN v.str ELSE <<"<value>">>

\* sep.join(items)
RECURSIVE Join(_, _)
Join(sep, items) ==
    IF items = <<>> THEN <<>>
    ELSE IF Len(items) = 1 THEN items[1]
    ELSE items[1] \o <<sep>> \o Join(sep, Tail(items))

\* session.eligible_schemes or []
SchemesOrEmpty(session) ==
    IF Truthy(session.eligible_schemes) THEN session.eligible_schemes ELSE PyList(<<>>)

\* save_to_supabase without its except clauses
save_to_supabase_unguarded(session, supabase) == supabase

\* save_to_supabase: builds the record and posts it; supabase is what the post does
\* (it returns, or raises).  Each try has except Exception; nothing is returned.
save_to_supabase(session, supabase) ==
    IF IsRaise(supabase) /\ ~Catches("Exception", supabase.exc)
    THEN supabase
    ELSE Return(None)

\* send_eligibility_email: smtp is what the mail server does; True when the mail
\* went out, False when sending raised an Exception
send_eligibility_email(user_data, smtp) ==
    IF ~IsRaise(smtp) THEN Return(PyBool(TRUE))
    ELSE IF Catches("Exception", smtp.exc) THEN Return(PyBool(FALSE))
    ELSE smtp

\* trigger_webhook: sends the mail and prints how it went, inside try/except Exception
trigger_webhook(session, smtp) ==
    LET user_data == [name |-> session.name, age |-> session.age,
                      income |-> session.income, state |-> session.state,
                      phone |-> session.phone, email |-> session.email,
                      eligible_schemes |-> SchemesOrEmpty(session)]
        sent == send_eligibility_email(user_data, smtp)
    IN  IF IsRaise(sent) /\ ~Catches("Exception", sent.exc)
        THEN sent
        ELSE Return(None)

\* the history append and return that end process_message
Respond(session, response, made) ==
    [session |-> [session EXCEPT !.conversation_history =
                      Append(@, [role |-> "assistant", message |-> response])],
     outcome |-> Return(response),
     calls |-> made]

\* an exception leaving process_message: the session keeps what was assigned so far
Escape(session, raised, made) ==
    [session |-> session, outcome |-> raised, calls |-> made]

\* collect_name without the list of greetings
collect_name_any_text(session, user_message) ==
    IF Len(Split(user_message)) >= 1
    THEN Respond([session EXCEPT !.name = PyStr(Title(user_message)),
                                 !.current_field = "age"], AgePrompt, <<>>)
    ELSE Respond(session, NamePrompt, <<>>)

\* if not session.name
collect_name(session, user_message) ==
    IF Len(Split(user_message)) >= 1 /\ user_message \notin Greetings
    THEN Respond([session EXCEPT !.name = PyStr(Title(user_message)),
                                 !.current_field = "age"], AgePrompt, <<>>)
    ELSE Respond(session, NamePrompt, <<>>)

\* collect_age with the advance of current_field left out
collect_age_no_advance(session, user_message) ==
    LET age == validate_age(user_message)
    IN  IF Truthy(age)
        THEN Respond([session EXCEPT !.age = age], IncomePrompt, <<>>)
        ELSE Respond(session, AgeError, <<>>)

\* elif not session.age
collect_age(session, user_message) ==
    LET age == validate_age(user_message)
    IN  IF Truthy(age)
        THEN Respond([session EXCEPT !.age = age, !.current_field = "income"],
                     IncomePrompt, <<>>)
        ELSE Respond(session, AgeError, <<>>)

\* elif not session.income
collect_income(session, user_message) ==
    LET income == validate_income(user_message)
    IN  IF Truthy(income)
        THEN Respond([session EXCEPT !.income = income, !.current_field = "state"],
                     StatePrompt, <<>>)
        ELSE Respond(session, IncomeError, <<>>)

\* collect_state storing the state name in the name field
collect_state_into_name(session, user_message) ==
    IF Len(user_message) > MinStateLen
    THEN Respond([session EXCEPT !.name = PyStr(Title(user_message)),
                                 !.current_field = "phone"], PhonePrompt, <<>>)
    ELSE Respond(session, StateError, <<>>)

\* elif not session.state
collect_state(session, user_message) ==
    IF Len(user_message) > MinStateLen
    THEN Respond([session EXCEPT !.state = PyStr(Title(user_message)),
                                 !.current_field = "phone"], PhonePrompt, <<>>)
    ELSE Respond(session, StateError, <<>>)

\* collect_phone moving on to complete, past the email
collect_phone_skips_email(session, user_message) ==
    LET phone == validate_phone(user_message)
    IN  IF Truthy(phone)
        THEN Respond([session EXCEPT !.phone = phone, !.current_field = "complete"],
                     EmailPrompt, <<>>)
        ELSE Respond(session, PhoneError, <<>>)

\* elif not session.phone
collect_phone(session, user_message) ==
    LET phone == validate_phone(user_message)
    IN  IF Truthy(phone)
        THEN Respond([session EXCEPT !.phone = phone, !.current_field = "email"],
                     EmailPrompt, <<>>)
        ELSE Respond(session, PhoneError, <<>>)

\* assign_schemes storing the list only when the evaluator named some scheme
assign_schemes_if_any(session, result) ==
    IF Truthy(DictGet(result, "eligible_schemes", PyList(<<>>)))
    THEN [session EXCEPT !.eligible_schemes = DictGet(result, "eligible_schemes", PyList(<<>>))]
    ELSE session

\* session.eligible_schemes = result.get("eligible_schemes", [])
assign_schemes(session, result) ==
    [session EXCEPT !.eligible_schemes = DictGet(result, "eligible_schemes", PyList(<<>>))]

\* schemes_text never listing a scheme
schemes_text_none_identified(schemes) == NoSchemes

\* the bulleted list of the result message
schemes_text(schemes) ==
    IF Truthy(schemes)
    THEN Join("\n", [i \in DOMAIN Iterate(schemes) |-> <<Bullet>> \o Str(Iterate(schemes)[i])])
    ELSE NoSchemes

\* the completion branch: the email has been validated
complete_assessment(session, email, service, sinks) ==
    LET collected == [session EXCEPT !.email = email, !.current_field = "complete"]
        result == evaluate_eligibility(collected, service)
        evaluated == <<[fn |-> "evaluate_eligibility", service |-> service,
                        returned |-> result]>>
    IN  IF IsRaise(result) THEN Escape(collected, result, evaluated)
        ELSE
        LET assessed == assign_schemes(collected, result.value)
        IN  IF Truthy(assessed.eligible_schemes) /\ ~IsIterable(assessed.eligible_schemes)
            THEN Escape(assessed, Raise("TypeError"), evaluated)
            ELSE
            LET response == ResultHead \o schemes_text(assessed.eligible_schemes) \o ResultTail
                stored == save_to_supabase(assessed, sinks.supabase)
                saved == evaluated \o <<[fn |-> "save_to_supabase",
                                         answer |-> sinks.supabase, returned |-> stored]>>
                mailed == trigger_webhook(assessed, sinks.smtp)
                notified == saved \o <<[fn |-> "trigger_webhook",
                                        answer |-> sinks.smtp, returned |-> mailed]>>
            IN  IF IsRaise(stored) THEN Escape(assessed, stored, saved)
                ELSE IF IsRaise(mailed) THEN Escape(assessed, mailed, notified)
                ELSE Respond(assessed, response, notified)

\* collect_email marking the session complete before the address is validated
collect_email_early_complete(session, user_message, service, sinks) ==
    LET email == validate_email(user_message)
    IN  IF Truthy(email)
        THEN complete_assessment(session, email, service, sinks)
        ELSE Respond([session EXCEPT !.current_field = "complete"], EmailError, <<>>)

\* elif not session.email
collect_email(session, user_message, service, sinks) ==
    LET email == validate_email(user_message)
    IN  IF Truthy(email)
        THEN complete_assessment(session, email, service, sinks)
        ELSE Respond(session, EmailError, <<>>)

\* follow_up asking for both phrases instead of either
follow_up_both_phrases(session, user_message) ==
    IF Contains(user_message, TellMeMore) /\ Contains(user_message, MoreAbout)
    THEN Respond(session, MoreAboutReply, <<>>)
    ELSE Respond(session, AlreadyAssessedReply, <<>>)

\* else: follow-up questions
follow_up(session, user_message) ==
    IF Contains(user_message, TellMeMore) \/ Contains(user_message, MoreAbout)
    THEN Respond(session, MoreAboutReply, <<>>)
    ELSE Respond(session, AlreadyAssessedReply, <<>>)

\* process_message: [session, outcome, calls]
process_message(session0, message, service, sinks) ==
    LET user_message == Strip(Lower(message))
        session == [session0 EXCEPT !.conversation_history =
                       Append(@, [role |-> "user", message |-> user_message])]
    IN  IF ~Truthy(session.name) THEN collect_name(session, user_message)
        ELSE IF ~Truthy(session.age) THEN collect_age(session, user_message)
        ELSE IF ~Truthy(session.income) THEN collect_income(session, user_message)
        ELSE IF ~Truthy(session.state) THEN collect_state(session, user_message)
        ELSE IF ~Truthy(session.phone) THEN collect_phone(session, user_message)
        ELSE IF ~Truthy(session.email) THEN collect_email(session, user_message, service, sinks)
        ELSE follow_up(session, user_message)

(***************************************************************************)
(* POST /chat                                                              *)
(***************************************************************************)
\* the reply of chat for what process_message returned or raised
ChatResponse(outcome) ==
    IF ~IsRaise(outcome) THEN outcome.value
    ELSE IF Catches("Exception", outcome.exc) THEN ErrorReply
    ELSE ServerError

Chat(session_id, message, service, sinks) ==
    LET store == get_session(sessions, session_id)
        done == process_message(store[session_id], message, service, sinks)
    IN  /\ sessions' = [store EXCEPT ![session_id] = done.session]
        /\ reply' = ChatResponse(done.outcome)
        /\ calls' = calls \o [i \in DOMAIN done.calls |->
                                 [session_id |-> session_id] @@ done.calls[i]]

(***************************************************************************)
(* The callers' messages and the eligibility service's answers             *)
(***************************************************************************)
Msg_Hi == <<"H","i">>
Msg_Priya == <<"P","r","i","y","a">>
Msg_30 == <<"3","0">>
Msg_65 == <<"6","5">>
Msg_150 == <<"1","5","0">>
Msg_300000 == <<"3","0","0","0","0","0">>
Msg_600000 == <<"6","0","0","0","0","0">>
Msg_0 == <<"0">>
Msg_Maharashtra == <<"M","a","h","a","r","a","s","h","t","r","a">>
Msg_UP == <<"U","P">>
Msg_9876543210 == <<"9","8","7","6","5","4","3","2","1","0">>
Msg_12345 == <<"1","2","3","4","5">>
Msg_PriyaEmail == <<"p","r","i","y","a","@","e","x","a","m","p","l","e",".","c","o","m">>
Msg_NotAnEmail == <<"n","o","t","-","a","n","-","e","m","a","i","l">>
Msg_TellMeMore == <<"T","e","l","l"," ","m","e"," ","m","o","r","e">>

Msg_45 == <<"4","5">>
Msg_120 == <<"1","2","0">>
Msg_Minus3 == <<"-","3">>
Msg_1 == <<"1">>
Msg_119 == <<"1","1","9">>

\* what the callers send while a session is collecting each field
FlowInputs ==
    [name |-> {Msg_Hi, Msg_Priya},
     age |-> {Msg_30, Msg_65, Msg_150},
     income |-> {Msg_300000, Msg_600000, Msg_0},
     state |-> {Msg_Maharashtra, Msg_UP},
     phone |-> {Msg_9876543210, Msg_12345},
     email |-> {Msg_PriyaEmail, Msg_NotAnEmail},
     complete |-> {Msg_TellMeMore, Msg_PriyaEmail, Msg_Priya}]

\* callers that try ages at and around the limits
AgeInputs ==
    [name |-> {Msg_Priya},
     age |-> {Msg_45, Msg_1, Msg_119, Msg_150, Msg_0, Msg_120, Msg_Minus3, Msg_Priya},
     income |-> {Msg_300000},
     state |-> {Msg_Maharashtra},
     phone |-> {Msg_9876543210},
     email |-> {Msg_PriyaEmail},
     complete |-> {Msg_TellMeMore}]

Schemes(value) == Member("eligible_schemes", value)
Reasoning == Member("reasoning", PyStr(<<"Low income household">>))
JsonObject(members) == <<LBrace>> \o members \o <<RBrace>>

ServiceOutcomes ==
    {ServiceRaises("APIConnectionError"),
     ServiceRaises("APITimeoutError"),
     ServiceReturns(None),
     ServiceReturns(PyStr(<<>>)),
     ServiceReturns(PyStr(<<Prose>>)),
     ServiceReturns(PyStr(<<LBrace>>)),
     ServiceReturns(PyStr(<<RBrace, Prose, LBrace>>)),
     ServiceReturns(PyStr(<<Prose, LBrace, Prose, RBrace>>)),
     ServiceReturns(PyStr(JsonObject(<<>>) \o <<Prose>> \o JsonObject(<<>>))),
     ServiceReturns(PyStr(<<Prose>> \o
         JsonObject(<<Schemes(PyList(<<PyStr(<<"MGNREGA">>)>>)), Reasoning>>) \o <<Prose>>)),
     ServiceReturns(PyStr(JsonObject(<<Schemes(PyList(<<>>)), Reasoning>>))),
     ServiceReturns(PyStr(JsonObject(<<Reasoning>>))),
     ServiceReturns(PyStr(JsonObject(<<Schemes(None)>>))),
     ServiceReturns(PyStr(JsonObject(<<Schemes(PyInt(3))>>))),
     ServiceReturns(PyStr(JsonObject(<<Schemes(PyInt(0))>>))),
     ServiceReturns(PyStr(JsonObject(<<Schemes(PyStr(<<"n","o">>))>>)))}

\* the service is asked only while the email is being collected
NotAsked == ServiceRaises("APIConnectionError")
Answers(field) == IF field = "email" THEN ServiceOutcomes ELSE {NotAsked}

\* what the post to the store and the mail server do when a sink is called
SinksWork == [supabase |-> Return(None), smtp |-> Return(None)]
SinksFail == [supabase |-> Raise("ConnectionError"), smtp |-> Raise("SMTPException")]
SinkOutcomes ==
    [supabase : {Return(None), Raise("ConnectionError")},
     smtp : {Return(None), Raise("SMTPException")}]
\* the sinks are called only while the email is being collected
SinkAnswers(outcomes, field) == IF field = "email" THEN outcomes ELSE {SinksWork}

Msg_Plus91Spaced == <<"+","9","1"," ","9","8","7","6","5"," ","4","3","2","1","0">>
Msg_919876543210 == <<"9","1","9","8","7","6","5","4","3","2","1","0">>
Msg_9198765432 == <<"9","1","9","8","7","6","5","4","3","2">>
Msg_Bracketed == <<"(","9","8","7",")"," ","6","5","4","-","3","2","1","0">>
Msg_PhoneTab == <<"9","8","7","6","5","\t","4","3","2","1","0">>
Msg_PhoneNewline == <<"9","8","7","6","5","4","3","2","1","0","\n","-">>

\* callers that greet, give a name, and name states of several lengths
NameInputs ==
    [name |-> {Msg_Hi, Msg_Priya,
               <<"H","E","L","L","O">>,
               <<"H","e","y"," ">>,
               <<>>,
               <<" ">>,
               <<"H","e","l","l","o"," ","P","r","i","y","a">>,
               <<"h","i"," ","h","e","l","l","o">>},
     age |-> {Msg_30},
     income |-> {Msg_300000},
     state |-> {Msg_Maharashtra, Msg_UP,
                <<"G","o","a">>,
                <<"h","e","y">>,
                <<" ","a"," ">>},
     phone |-> {Msg_9876543210},
     email |-> {Msg_PriyaEmail},
     complete |-> {Msg_TellMeMore}]

\* callers that write their phone number in many ways
PhoneInputs ==
    [name |-> {Msg_Priya},
     age |-> {Msg_30},
     income |-> {Msg_300000},
     state |-> {Msg_Maharashtra},
     phone |-> {Msg_9876543210, Msg_Plus91Spaced, Msg_919876543210, Msg_9198765432,
                Msg_Bracketed, Msg_12345, Msg_PhoneTab, Msg_PhoneNewline},
     email |-> {Msg_PriyaEmail},
     complete |-> {Msg_TellMeMore}]

\* callers that finish an assessment while the sinks work or fail
SinkInputs ==
    [name |-> {Msg_Priya},
     age |-> {Msg_30, Msg_65},
     income |-> {Msg_300000},
     state |-> {Msg_Maharashtra},
     phone |-> {Msg_9876543210},
     email |-> {Msg_PriyaEmail, Msg_NotAnEmail},
     complete |-> {Msg_TellMeMore}]

SessionIds == {"s1", "s2"}
MaxTurns == 8
MaxAgeTurns == 4
MaxSinkTurns == 7
MaxPhoneTurns == 6
MaxNameTurns == 5

Fields == <<"name", "age", "income", "state", "phone", "email">>

\* the messages a session has received
Turns(session) ==
    Cardinality({i \in DOMAIN session.conversation_history :
                    session.conversation_history[i].role = "user"})
RECURSIVE SumTurns(_)
SumTurns(ids) ==
    IF ids = {} THEN 0
    ELSE LET id == CHOOSE x \in ids : TRUE
         IN  Turns(sessions[id]) + SumTurns(ids \ {id})
TotalTurns == SumTurns(DOMAIN sessions)

\* the field a session is collecting, as the caller sees it
Collecting(session_id) ==
    IF session_id \in DOMAIN sessions THEN sessions[session_id].current_field ELSE "name"

(***************************************************************************)
(* Specification                                                           *)
(***************************************************************************)
Init ==
    /\ sessions = <<>>
    /\ reply = <<>>
    /\ calls = <<>>

Exchange(inputs, outcomes, cap) ==
    /\ TotalTurns < cap
    /\ \E session_id \in SessionIds :
          \E message \in inputs[Collecting(session_id)] :
            \E service \in Answers(Collecting(session_id)) :
              \E sinks \in SinkAnswers(outcomes, Collecting(session_id)) :
                Chat(session_id, message, service, sinks)

Next == Exchange(FlowInputs, {SinksWork, SinksFail}, MaxTurns)

Spec == Init /\ [][Next]_vars

\* the same service, with callers that try many ages
NextAge == Exchange(AgeInputs, {SinksWork}, MaxAgeTurns)

SpecAge == Init /\ [][NextAge]_vars

\* the same service, with a store and a mail server that work or fail independently
NextSinks == Exchange(SinkInputs, SinkOutcomes, MaxSinkTurns)

SpecSinks == Init /\ [][NextSinks]_vars

\* the same service, with callers that write their phone number in many ways
NextPhone == Exchange(PhoneInputs, {SinksWork}, MaxPhoneTurns)

SpecPhone == Init /\ [][NextPhone]_vars

\* the same service, with callers that greet before they give a name
NextName == Exchange(NameInputs, {SinksWork}, MaxNameTurns)

SpecName == Init /\ [][NextName]_vars

(***************************************************************************)
(* What a step did, for the properties below                               *)
(***************************************************************************)
\* the session a step handled a message for
Handled(session_id) ==
    /\ session_id \in DOMAIN sessions'
    /\ session_id \in DOMAIN sessions => sessions'[session_id] # sessions[session_id]

\* the session as the step found it (fresh when the identifier was new)
Before(session_id) ==
    IF session_id \in DOMAIN sessions THEN sessions[session_id] ELSE UserSession(session_id)

\* the message, as normalised by process_message, that the step handled
Received(session_id) ==
    sessions'[session_id].conversation_history[
        Len(Before(session_id).conversation_history) + 1].message

\* the external calls the step made
NewCalls == SubSeq(calls', Len(calls) + 1, Len(calls'))

History(session_id) == sessions[session_id].conversation_history
LastEntries(session_id, entries) ==
    /\ Len(History(session_id)) >= Len(entries)
    /\ SubSeq(History(session_id), Len(History(session_id)) - Len(entries) + 1,
              Len(History(session_id))) = entries
User(text) == [role |-> "user", message |-> text]
Assistant(text) == [role |-> "assistant", message |-> text]
Replied(session_id, text) ==
    \E i \in DOMAIN History(session_id) : History(session_id)[i] = Assistant(text)

FirstUnset(session) ==
    IF \E i \in DOMAIN Fields : IsNone(session[Fields[i]])
    THEN Fields[CHOOSE i \in DOMAIN Fields :
                    /\ IsNone(session[Fields[i]])
                    /\ \A j \in 1..(i - 1) : ~IsNone(session[Fields[j]])]
    ELSE "complete"

Populated(session) == {i \in DOMAIN Fields : ~IsNone(session[Fields[i]])}

(***************************************************************************)
(* C1: between messages, current_field of every session is the first of    *)
(* name, age, income, state, phone, email that is still unset, or          *)
(* "complete" when all six are set.                                        *)
(***************************************************************************)
C1_CurrentFieldIsFirstUnset ==
    \A session_id \in DOMAIN sessions :
        sessions[session_id].current_field = FirstUnset(sessions[session_id])

\* a session completed after an invalid age and an invalid phone were turned down
C1_Witness ==
    \E session_id \in DOMAIN sessions :
        /\ sessions[session_id].current_field = "complete"
        /\ Replied(session_id, AgeError)
        /\ Replied(session_id, PhoneError)

PrefixPopulated ==
    \A session_id \in DOMAIN sessions :
        \E n \in 0..Len(Fields) : Populated(sessions[session_id]) = 1..n

NeverOverwritten ==
    \A session_id \in DOMAIN sessions :
        \A i \in DOMAIN Fields :
            ~IsNone(sessions[session_id][Fields[i]]) =>
                /\ session_id \in DOMAIN sessions'
                /\ sessions'[session_id][Fields[i]] = sessions[session_id][Fields[i]]

(***************************************************************************)
(* C2: the populated fields of a session always form a prefix of name,     *)
(* age, income, state, phone, email, and a field that is set is never      *)
(* changed by a later message.                                             *)
(***************************************************************************)
C2_OrderedNeverOverwritten == []PrefixPopulated /\ [][NeverOverwritten]_vars

\* a completed session was sent its own validated email address again
C2_Witness ==
    \E session_id \in DOMAIN sessions :
        /\ Populated(sessions[session_id]) = DOMAIN Fields
        /\ LastEntries(session_id, <<User(sessions[session_id].email.str),
                                     Assistant(AlreadyAssessedReply)>>)

\* the step accepted the email of this session (the completion transition)
AcceptsEmail(session_id) ==
    /\ Handled(session_id)
    /\ IsNone(Before(session_id).email)
    /\ ~IsNone(sessions'[session_id].email)

\* the session after a turn in which nothing but the history changed
AfterTurn(session_id, text, response) ==
    [Before(session_id) EXCEPT !.conversation_history =
        @ \o <<User(text), Assistant(response)>>]

FunctionsCalled(made) == [i \in DOMAIN made |-> made[i].fn]

C3_CompletionCalls ==
    \A session_id \in DOMAIN sessions' :
        Handled(session_id) =>
            IF AcceptsEmail(session_id)
            THEN /\ FunctionsCalled(NewCalls) =
                        <<"evaluate_eligibility", "save_to_supabase", "trigger_webhook">>
                 /\ \A i \in DOMAIN NewCalls : NewCalls[i].session_id = session_id
            ELSE NewCalls = <<>>

(***************************************************************************)
(* C3: the message that accepts the email makes process_message call       *)
(* evaluate_eligibility, save_to_supabase and trigger_webhook, once each   *)
(* and in that order; every other message makes it call none of them.      *)
(***************************************************************************)
C3_CallsOnceInOrderOnCompletion == [][C3_CompletionCalls]_vars

SchemesOnlyWhenCollected ==
    \A session_id \in DOMAIN sessions :
        Populated(sessions[session_id]) # DOMAIN Fields =>
            IsNone(sessions[session_id].eligible_schemes)

SchemesAssignedOnCompletion ==
    \A session_id \in DOMAIN sessions' :
        IF AcceptsEmail(session_id)
        THEN \E i \in DOMAIN NewCalls :
                /\ NewCalls[i].fn = "evaluate_eligibility"
                /\ ~IsRaise(NewCalls[i].returned)
                /\ sessions'[session_id].eligible_schemes =
                       DictGet(NewCalls[i].returned.value, "eligible_schemes", PyList(<<>>))
        ELSE sessions'[session_id].eligible_schemes = Before(session_id).eligible_schemes

(***************************************************************************)
(* C4: eligible_schemes is None while any of the six fields is unset; it   *)
(* is assigned on the message that accepts the email, from the evaluator's *)
(* result, and on no other message; so it never changes afterwards.        *)
(***************************************************************************)
C4_SchemesAssignedOnce == []SchemesOnlyWhenCollected /\ [][SchemesAssignedOnCompletion]_vars

\* a session holding a non-empty scheme list has answered one more message
C4_Witness ==
    \E session_id \in DOMAIN sessions :
        /\ IsList(sessions[session_id].eligible_schemes)
        /\ Len(sessions[session_id].eligible_schemes.list) > 0
        /\ LastEntries(session_id, <<User(Strip(Lower(Msg_TellMeMore))),
                                     Assistant(MoreAboutReply)>>)

TurnedDown(field, text) ==
    CASE field = "name" -> Len(Split(text)) = 0 \/ text \in Greetings
      [] field = "age" -> IsNone(validate_age(text))
      [] field = "income" -> IsNone(validate_income(text))
      [] field = "state" -> Len(text) <= MinStateLen
      [] field = "phone" -> IsNone(validate_phone(text))
      [] field = "email" -> IsNone(validate_email(text))
      [] OTHER -> FALSE

HelpPrompt ==
    [name |-> NamePrompt, age |-> AgeError, income |-> IncomeError,
     state |-> StateError, phone |-> PhoneError, email |-> EmailError]

RejectionLeavesSession ==
    \A session_id \in DOMAIN sessions' :
        (/\ Handled(session_id)
         /\ TurnedDown(Before(session_id).current_field, Received(session_id)))
        => /\ reply' = HelpPrompt[Before(session_id).current_field]
           /\ sessions'[session_id] = AfterTurn(session_id, Received(session_id), reply')
           /\ calls' = calls

(***************************************************************************)
(* C5: when the validation of the field being collected turns the message  *)
(* down, the six fields, current_field and eligible_schemes keep their     *)
(* values, no evaluator or sink is called, the reply is that field's help  *)
(* prompt, and the session only gains the message and the reply in its     *)
(* conversation_history.                                                   *)
(***************************************************************************)
C5_RejectionChangesNothing == [][RejectionLeavesSession]_vars

\* an age, a phone number and an email address have each been turned down
C5_Witness ==
    \E session_id \in DOMAIN sessions :
        /\ IsNone(sessions[session_id].email)
        /\ \E i \in DOMAIN History(session_id) :
              /\ History(session_id)[i] = User(Msg_150)
              /\ History(session_id)[i + 1] = Assistant(AgeError)
        /\ \E i \in DOMAIN History(session_id) :
              /\ History(session_id)[i] = User(Msg_12345)
              /\ History(session_id)[i + 1] = Assistant(PhoneError)
        /\ LastEntries(session_id, <<User(Msg_NotAnEmail), Assistant(EmailError)>>)

FollowUpLeavesSession ==
    \A session_id \in DOMAIN sessions' :
        (Handled(session_id) /\ Before(session_id).current_field = "complete")
        => /\ reply' = IF \/ Contains(Received(session_id), TellMeMore)
                          \/ Contains(Received(session_id), MoreAbout)
                       THEN MoreAboutReply
                       ELSE AlreadyAssessedReply
           /\ sessions'[session_id] = AfterTurn(session_id, Received(session_id), reply')
           /\ calls' = calls

(***************************************************************************)
(* C6: a message to a complete session is answered with the "more about a  *)
(* scheme" prompt when it contains "tell me more" or "more about" and      *)
(* with the "already assessed" message otherwise; the six fields,          *)
(* current_field and eligible_schemes keep their values and no evaluator   *)
(* or sink is called.                                                      *)
(***************************************************************************)
C6_CompleteSessionIsFrozen == [][FollowUpLeavesSession]_vars

\* a complete session got its email address again and then a "tell me more"
C6_Witness ==
    \E session_id \in DOMAIN sessions :
        /\ sessions[session_id].current_field = "complete"
        /\ ~IsNone(sessions[session_id].email)
        /\ LastEntries(session_id, <<User(sessions[session_id].email.str),
                                     Assistant(AlreadyAssessedReply),
                                     User(Strip(Lower(Msg_TellMeMore))),
                                     Assistant(MoreAboutReply)>>)

IncomeStep ==
    \A session_id \in DOMAIN sessions' :
        (Handled(session_id) /\ Before(session_id).current_field = "income")
        => LET text == Received(session_id)
               number == ParseFloat(Remove(Remove(Remove(text, ","), Rupee), "$"))
           IN  IF number.ok /\ number.val >= 0
               THEN /\ sessions'[session_id].income = PyFloat(number.val)
                    /\ sessions'[session_id].current_field = "state"
                    /\ reply' = StatePrompt
               ELSE /\ IsNone(sessions'[session_id].income)
                    /\ sessions'[session_id].current_field = "income"

(***************************************************************************)
(* C7: while income is being collected a message is accepted (income set   *)
(* to the parsed value, current_field state, the state prompt returned)    *)
(* if and only if, with currency symbols and commas removed, it is a       *)
(* number that is not negative, zero included.                             *)
(***************************************************************************)
C7_IncomeAcceptedIffNonNegative == [][IncomeStep]_vars

AgeInRange ==
    \A session_id \in DOMAIN sessions :
        ~IsNone(sessions[session_id].age) =>
            /\ IsInt(sessions[session_id].age)
            /\ sessions[session_id].age.int \in 1..119

AgeStep ==
    \A session_id \in DOMAIN sessions' :
        (Handled(session_id) /\ Before(session_id).current_field = "age")
        => LET number == ParseInt(Received(session_id))
           IN  IF number.ok /\ 0 < number.val /\ number.val < 120
               THEN /\ sessions'[session_id].age = PyInt(number.val)
                    /\ sessions'[session_id].current_field = "income"
               ELSE /\ IsNone(sessions'[session_id].age)
                    /\ sessions'[session_id].current_field = "age"

(***************************************************************************)
(* C8: while age is being collected a message is accepted if and only if   *)
(* it is an integer strictly between 0 and 120; then age is that integer   *)
(* and current_field is income, otherwise age stays unset and              *)
(* current_field stays age.  So a set age is always in 1..119.             *)
(***************************************************************************)
C8_AgeAcceptedIffInRange == []AgeInRange /\ [][AgeStep]_vars

\* "120" was turned down and "119" was then accepted
C8_Witness ==
    \E session_id \in DOMAIN sessions :
        /\ sessions[session_id].age = PyInt(119)
        /\ sessions[session_id].current_field = "income"
        /\ LastEntries(session_id, <<User(Msg_120), Assistant(AgeError),
                                     User(Msg_119), Assistant(IncomePrompt)>>)

(***************************************************************************)
(* The evaluator's calls, as logged: what the service answered, what       *)
(* evaluate_eligibility returned, and the profile it was given             *)
(***************************************************************************)
Evaluations == {i \in DOMAIN calls : calls[i].fn = "evaluate_eligibility"}
ReturnedSchemes(i) == DictGet(calls[i].returned.value, "eligible_schemes", None)
ReturnedReasoning(i) == DictGet(calls[i].returned.value, "reasoning", None)
ProfileAge(i) == sessions[calls[i].session_id].age.int
ProfileIncome(i) == sessions[calls[i].session_id].income.float

\* the fallback rule of the specification, as a function of (age, income)
FallbackRule(age, income) ==
    IF age < 60 /\ income < 500000 THEN LowIncomeSchemes
    ELSE IF age >= 60 THEN SeniorSchemes
    ELSE <<>>

\* the service call failed or timed out
CallFailed(service) == "raises" \in DOMAIN service
\* the service answered without any text
NoText(service) == "content" \in DOMAIN service /\ IsNone(service.content)
HasText(service) == "content" \in DOMAIN service /\ IsStr(service.content)
\* the text holds no brace at all
NoBraces(service) ==
    /\ HasText(service)
    /\ \A i \in DOMAIN service.content.str : service.content.str[i] \notin {LBrace, RBrace}
\* the text holds an opening brace with a closing brace somewhere after it
BraceDelimited(service) ==
    /\ HasText(service)
    /\ \E i, j \in DOMAIN service.content.str :
          i < j /\ service.content.str[i] = LBrace /\ service.content.str[j] = RBrace
\* ... and what lies from the first opening to the last closing brace is a JSON object
JsonSpan(service) ==
    LET text == service.content.str
        first == CHOOSE i \in DOMAIN text :
                    text[i] = LBrace /\ \A k \in 1..(i - 1) : text[k] # LBrace
        last == CHOOSE j \in DOMAIN text :
                    text[j] = RBrace /\ \A k \in (j + 1)..Len(text) : text[k] # RBrace
    IN  SubSeq(text, first, last)
MalformedJson(service) == BraceDelimited(service) /\ ~JsonLoads(JsonSpan(service)).ok

Failed == reply' = ErrorReply \/ reply' = ServerError

(***************************************************************************)
(* C11: when an exception leaves process_message, the endpoint replies     *)
(* with the generic error message and every session (six fields,           *)
(* current_field, eligible_schemes, conversation_history) is as it was     *)
(* before the message.                                                     *)
(***************************************************************************)
C11_ErrorLeavesSessionAsItWas ==
    [][Failed =>
          /\ reply' = ErrorReply
          /\ \A session_id \in DOMAIN sessions' :
                sessions'[session_id] = Before(session_id)]_vars


\* the calls of the step that went to a sink, and the sinks whose answer was a failure
SinkCalls == {i \in DOMAIN NewCalls : NewCalls[i].fn \in {"save_to_supabase", "trigger_webhook"}}
SinkFailed(made, fn) ==
    \E i \in DOMAIN made : made[i].fn = fn /\ IsRaise(made[i].answer)

\* the step as it would have gone with both sinks working
WithWorkingSinks(session_id) ==
    process_message(Before(session_id), Received(session_id), NewCalls[1].service, SinksWork)

SinkFailureChangesNothing ==
    \A session_id \in DOMAIN sessions' :
        AcceptsEmail(session_id) =>
            /\ sessions'[session_id] = WithWorkingSinks(session_id).session
            /\ reply' = ChatResponse(WithWorkingSinks(session_id).outcome)
            /\ \A i \in SinkCalls :
                  NewCalls[i].fn = "save_to_supabase" =>
                      \E j \in SinkCalls : j > i /\ NewCalls[j].fn = "trigger_webhook"

(***************************************************************************)
(* C12: on the message that accepts the email, the reply and the session   *)
(* are what they are when both sinks work, whatever save_to_supabase and   *)
(* trigger_webhook run into; and trigger_webhook is called after           *)
(* save_to_supabase also when the save failed.                             *)
(***************************************************************************)
C12_SinkFailuresChangeNothing == [][SinkFailureChangesNothing]_vars

\* a session got its list of schemes although the save failed and the mail was not sent
C12_Witness ==
    \E session_id \in DOMAIN sessions :
        /\ SinkFailed(calls, "save_to_supabase")
        /\ SinkFailed(calls, "trigger_webhook")
        /\ \A i \in DOMAIN calls : calls[i].session_id = session_id
        /\ sessions[session_id].eligible_schemes = PyList(LowIncomeSchemes)
        /\ LastEntries(session_id,
               <<User(Msg_PriyaEmail),
                 Assistant(ResultHead \o schemes_text(PyList(LowIncomeSchemes)) \o ResultTail)>>)


\* n messages handled: 2n entries, a user entry then an assistant entry for each
TwoEntriesPerMessage ==
    \A session_id \in DOMAIN sessions :
        /\ Len(History(session_id)) = 2 * Turns(sessions[session_id])
        /\ \A i \in DOMAIN History(session_id) :
              History(session_id)[i].role = IF i % 2 = 1 THEN "user" ELSE "assistant"

\* a message adds its own two entries after the ones that were there
MessageAndReplyAppended ==
    \A session_id \in DOMAIN sessions' :
        Handled(session_id) =>
            LET before == Before(session_id).conversation_history
                after == sessions'[session_id].conversation_history
            IN  /\ Len(after) = Len(before) + 2
                /\ SubSeq(after, 1, Len(before)) = before
                /\ after[Len(before) + 1].role = "user"
                /\ after[Len(before) + 2] = Assistant(reply')

(***************************************************************************)
(* C13: conversation_history only grows: after n messages it holds 2n      *)
(* entries, user then assistant in turn, earlier entries stay as they      *)
(* are, and the reply given to the caller is the assistant entry that the  *)
(* message added.                                                          *)
(***************************************************************************)
C13_HistoryTwoPerMessage == []TwoEntriesPerMessage /\ [][MessageAndReplyAppended]_vars


\* the end-to-end scenario of the specification and the prompts it is to produce
Scenario ==
    <<Msg_Hi, Msg_Priya, Msg_30, Msg_300000, Msg_Maharashtra, Msg_9876543210, Msg_PriyaEmail>>
ScenarioPrompts ==
    <<NamePrompt, AgePrompt, IncomePrompt, StatePrompt, PhonePrompt, EmailPrompt>>
FixedReplies == {MoreAboutReply, AlreadyAssessedReply}

\* the session has received the messages of the scenario, as far as it has got
FollowsScenario(session_id) ==
    \A k \in DOMAIN Scenario :
        2 * k - 1 <= Len(History(session_id)) =>
            History(session_id)[2 * k - 1] = User(Strip(Lower(Scenario[k])))
ScenarioDone(session_id) == Len(History(session_id)) >= 2 * Len(Scenario) - 1

\* the first six replies are the name prompt and the five prompts that follow it
PromptsInOrder(session_id) ==
    \A k \in DOMAIN ScenarioPrompts :
        2 * k <= Len(History(session_id)) =>
            History(session_id)[2 * k] = Assistant(ScenarioPrompts[k])

\* the seventh reply lists the schemes of a non-empty eligible_schemes
ListsSchemes(session_id) ==
    LET schemes == sessions[session_id].eligible_schemes
        final == History(session_id)[2 * Len(Scenario)].message
    IN  /\ IsList(schemes) /\ schemes.list # <<>>
        /\ Len(History(session_id)) >= 2 * Len(Scenario)
        /\ History(session_id)[2 * Len(Scenario)].role = "assistant"
        /\ StartsWith(final, ResultHead)
        /\ \A i \in DOMAIN schemes.list : Contains(final, Str(schemes.list[i]))
        /\ ~Contains(final, NoSchemes)

\* every reply after the seventh message's is one of the two fixed replies
FixedRepliesAfter(session_id) ==
    \A i \in DOMAIN History(session_id) :
        i > 2 * Len(Scenario) /\ History(session_id)[i].role = "assistant" =>
            History(session_id)[i].message \in FixedReplies

\* what evaluate_eligibility returned for the session names at least one scheme in a list
NamesSchemes(session_id) ==
    \E i \in Evaluations :
        /\ calls[i].session_id = session_id
        /\ IsList(ReturnedSchemes(i))
        /\ ReturnedSchemes(i).list # <<>>

\* the service gave evaluate_eligibility nothing it could parse
FellBack(session_id) ==
    \E i \in Evaluations :
        /\ calls[i].session_id = session_id
        /\ \/ CallFailed(calls[i].service)
           \/ NoText(calls[i].service)
           \/ MalformedJson(calls[i].service)

(***************************************************************************)
(* C14 (as stated): a fresh session sent Hi, Priya, 30, 300000,            *)
(* Maharashtra, 9876543210, priya@example.com answers with the name        *)
(* prompt, the age, income, state, phone and email prompts and then a      *)
(* message listing a non-empty eligible_schemes, with current_field        *)
(* complete; every later reply is one of the two fixed replies.            *)
(***************************************************************************)
C14_ScenarioListsSchemes ==
    \A session_id \in DOMAIN sessions :
        FollowsScenario(session_id) =>
            /\ PromptsInOrder(session_id)
            /\ ScenarioDone(session_id) =>
                  /\ sessions[session_id].current_field = "complete"
                  /\ ListsSchemes(session_id)
                  /\ FixedRepliesAfter(session_id)

(***************************************************************************)
(* C14 (amended): the same scenario gives the six prompts in order and     *)
(* leaves current_field complete; the seventh reply lists a non-empty      *)
(* eligible_schemes whenever the evaluator's result names at least one     *)
(* scheme in a list, which it does with the two low-income schemes when    *)
(* the service fails, answers without text or with malformed JSON; every   *)
(* later reply is one of the two fixed replies.                            *)
(***************************************************************************)
C14_ScenarioListsSchemesWhenNamed ==
    \A session_id \in DOMAIN sessions :
        FollowsScenario(session_id) =>
            /\ PromptsInOrder(session_id)
            /\ ScenarioDone(session_id) =>
                  /\ sessions[session_id].current_field = "complete"
                  /\ NamesSchemes(session_id) => ListsSchemes(session_id)
                  /\ FellBack(session_id) =>
                        /\ NamesSchemes(session_id)
                        /\ sessions[session_id].eligible_schemes = PyList(LowIncomeSchemes)
                  /\ FixedRepliesAfter(session_id)

\* the scenario ran to its end against a failing service, and one more message followed
C14_Witness ==
    \E session_id \in DOMAIN sessions :
        /\ FollowsScenario(session_id)
        /\ FellBack(session_id)
        /\ ListsSchemes(session_id)
        /\ Len(History(session_id)) = 2 * Len(Scenario) + 2
        /\ History(session_id)[Len(History(session_id))] = Assistant(MoreAboutReply)


\* the order current_field goes through, and the place of a value in it
FieldOrder == Fields \o <<"complete">>
Position(field) == CHOOSE i \in DOMAIN FieldOrder : FieldOrder[i] = field

\* a message leaves current_field where it is and sets no field, or moves it to
\* the next position and sets the one field it was at
OneStepForward ==
    \A session_id \in DOMAIN sessions' :
        LET before == Before(session_id)
            after == sessions'[session_id]
            from == Position(before.current_field)
            to == Position(after.current_field)
        IN  /\ to \in {from, from + 1}
            /\ to = from => Populated(after) = Populated(before)
            /\ to = from + 1 => /\ from \notin Populated(before)
                                /\ Populated(after) = Populated(before) \cup {from}

(***************************************************************************)
(* C15: current_field only moves forward along name, age, income, state,   *)
(* phone, email, complete: a message leaves it unchanged or advances it    *)
(* by exactly one position, never skipping and never going back, and an    *)
(* advance sets exactly one field.                                         *)
(***************************************************************************)
C15_CurrentFieldAdvancesByOne == [][OneStepForward]_vars

\* a session went through all seven positions with an income and an email turned down
C15_Witness ==
    \E session_id \in DOMAIN sessions :
        /\ sessions[session_id].current_field = "complete"
        /\ Replied(session_id, IncomeError)
        /\ Replied(session_id, EmailError)


\* the three things a completed assessment consists of have been done for the session
CarriedOut(session_id) ==
    \A fn \in {"evaluate_eligibility", "save_to_supabase", "trigger_webhook"} :
        \E i \in DOMAIN calls : calls[i].session_id = session_id /\ calls[i].fn = fn

(***************************************************************************)
(* C16: no failure leaves a session with current_field complete while     *)
(* the evaluation, the persistence and the notification for that session   *)
(* have not been carried out.                                              *)
(***************************************************************************)
C16_CompleteMeansCarriedOut ==
    \A session_id \in DOMAIN sessions :
        sessions[session_id].current_field = "complete" => CarriedOut(session_id)

\* the phone number of the specification: separators (whitespace, hyphens,
\* parentheses) removed, then a leading +91 or 91 removed while more than ten
\* characters are left, and the result taken when it is ten decimal digits
Separators == Whitespace \cup {"-", "(", ")"}
SpecifiedPhone(text) ==
    LET bare == SelectSeq(text, LAMBDA c : c \notin Separators)
        local == IF Len(bare) > PhoneDigits /\ StartsWith(bare, <<"+", "9", "1">>)
                 THEN SubSeq(bare, 4, Len(bare))
                 ELSE IF Len(bare) > PhoneDigits /\ StartsWith(bare, <<"9", "1">>)
                      THEN SubSeq(bare, 3, Len(bare))
                      ELSE bare
    IN  IF Len(local) = PhoneDigits /\ AllIn(local, DigitSet) THEN PyStr(local) ELSE None

TenDigits(phone) == Len(phone.str) = PhoneDigits /\ AllIn(phone.str, DigitSet)

PhoneIsTenDigits ==
    \A session_id \in DOMAIN sessions :
        ~IsNone(sessions[session_id].phone) => TenDigits(sessions[session_id].phone)

PhoneStep ==
    \A session_id \in DOMAIN sessions' :
        Handled(session_id) /\ Before(session_id).current_field = "phone" =>
            LET phone == SpecifiedPhone(Received(session_id))
            IN  IF ~IsNone(phone)
                THEN /\ sessions'[session_id].phone = phone
                     /\ sessions'[session_id].current_field = "email"
                ELSE /\ IsNone(sessions'[session_id].phone)
                     /\ sessions'[session_id].current_field = "phone"

(***************************************************************************)
(* C17: while a session collects the phone, a message is accepted exactly  *)
(* when ten decimal digits are left after the separators and a leading     *)
(* +91 or 91 (taken off only while more than ten characters remain) are    *)
(* removed; those ten digits are stored, and a phone that is set is        *)
(* always exactly ten digits.                                              *)
(***************************************************************************)
C17_PhoneAcceptedIffTenDigits == []PhoneIsTenDigits /\ [][PhoneStep]_vars


\* every stored session is the one of its identifier
StoredUnderOwnId ==
    \A session_id \in DOMAIN sessions : sessions[session_id].session_id = session_id

\* a session that is stored stays stored, with the history it has as the start of
\* the history it has afterwards
KeptInStore(session_id) ==
    /\ session_id \in DOMAIN sessions'
    /\ Len(sessions'[session_id].conversation_history) >= Len(History(session_id))
    /\ SubSeq(sessions'[session_id].conversation_history, 1, Len(History(session_id)))
           = History(session_id)

\* a session that appears is a new UserSession that has handled its first message
CreatedOnFirstMessage(session_id) ==
    sessions'[session_id] =
        process_message(UserSession(session_id), Received(session_id), NotAsked, SinksWork).session

CreatedKeptApart ==
    /\ \A session_id \in DOMAIN sessions : KeptInStore(session_id)
    /\ \A session_id \in DOMAIN sessions' \ DOMAIN sessions : CreatedOnFirstMessage(session_id)
    /\ \A one, other \in DOMAIN sessions' : Handled(one) /\ Handled(other) => one = other

(***************************************************************************)
(* C18: a session is created on the first message for a new identifier,    *)
(* with every field unset and current_field name; it is never removed      *)
(* from the store or reset; and a message for one identifier leaves the    *)
(* session of every other identifier, its history included, unchanged.     *)
(***************************************************************************)
C18_SessionsCreatedLazilyAndIsolated == []StoredUnderOwnId /\ [][CreatedKeptApart]_vars

\* one session is complete while another, created later or earlier, is at its age
C18_Witness ==
    \E one, other \in DOMAIN sessions :
        /\ one # other
        /\ sessions[one].current_field = "complete"
        /\ sessions[other].current_field = "age"
        /\ IsNone(sessions[other].eligible_schemes)
        /\ ~IsNone(sessions[one].eligible_schemes)


\* the text has a token that is not a greeting word
HasOtherToken(text) ==
    \E i \in DOMAIN Split(text) : Lower(Split(text)[i]) \notin Greetings
\* the text, as a whole, is something other than one greeting word
IsOtherText(text) == text # <<>> /\ text \notin Greetings

\* what a message does while the name is collected, given whether it is to be accepted
NameStep(session_id, accepted) ==
    IF accepted
    THEN /\ sessions'[session_id].name = PyStr(Title(Received(session_id)))
         /\ sessions'[session_id].current_field = "age"
    ELSE /\ IsNone(sessions'[session_id].name)
         /\ sessions'[session_id].current_field = "name"
         /\ reply' = NamePrompt

\* a state is taken when the message is longer than two characters, greeting or not
StateStep(session_id) ==
    IF Len(Received(session_id)) > 2
    THEN /\ ~IsNone(sessions'[session_id].state)
         /\ sessions'[session_id].current_field = "phone"
    ELSE /\ IsNone(sessions'[session_id].state)
         /\ sessions'[session_id].current_field = "state"

NameByTokens ==
    \A session_id \in DOMAIN sessions' :
        Handled(session_id) =>
            /\ Before(session_id).current_field = "name" =>
                  NameStep(session_id, HasOtherToken(Received(session_id)))
            /\ Before(session_id).current_field = "state" => StateStep(session_id)

NameByWholeText ==
    \A session_id \in DOMAIN sessions' :
        Handled(session_id) =>
            /\ Before(session_id).current_field = "name" =>
                  NameStep(session_id, IsOtherText(Received(session_id)))
            /\ Before(session_id).current_field = "state" => StateStep(session_id)

(***************************************************************************)
(* C19 (as stated): while the name is collected a message is accepted,     *)
(* name set to its title-cased text and current_field moved to age,        *)
(* exactly when it has a token that is not one of hi, hello, hey, start;   *)
(* otherwise name stays unset and the name prompt is returned.  While the  *)
(* state is collected a message is accepted exactly when it is longer      *)
(* than 2 characters after trimming, greeting words included.              *)
(***************************************************************************)
C19_NameAcceptedIffNonGreetingToken == [][NameByTokens]_vars

(***************************************************************************)
(* C19 (amended): while the name is collected a message is accepted        *)
(* exactly when its lower-cased, trimmed text is not empty and is not, as  *)
(* a whole, one of hi, hello, hey, start; the rest as stated.              *)
(***************************************************************************)
C19_NameAcceptedIffNotAGreeting == [][NameByWholeText]_vars

\* two greeting words were taken as a name, and a greeting word as a state
C19_Witness ==
    \E session_id \in DOMAIN sessions :
        /\ sessions[session_id].name = PyStr(<<"H","i"," ","H","e","l","l","o">>)
        /\ sessions[session_id].state = PyStr(<<"H","e","y">>)
        /\ Replied(session_id, NamePrompt)


(***************************************************************************)
(* C20: between messages, whatever the evaluator returned, a session has   *)
(* its email set exactly when its current_field is complete and exactly    *)
(* when its eligible_schemes is a list.                                    *)
(***************************************************************************)
C20_CompleteIffEmailIffSchemesList ==
    \A session_id \in DOMAIN sessions :
        LET session == sessions[session_id]
        IN  /\ ~IsNone(session.email) <=> session.current_field = "complete"
            /\ session.current_field = "complete" <=> IsList(session.eligible_schemes)

=============================================================================
